---- MODULE Spec2Model ----
(***************************************************************************)
(* Model of bce-service-bos-transport: the multipart chunk planner         *)
(* (MultiTransport._decompose), the download Transport state machine       *)
(* (start / resume / pause), the multipart upload start() and the          *)
(* Dispatcher with its async.queue admission queue.                        *)
(*                                                                         *)
(* Five specifications share the variables; each leaves the variables of   *)
(* the other parts unchanged:                                              *)
(*   SpecPlan  the planner applied to bounded inputs                       *)
(*   SpecDl    one download Transport against a local file and an object   *)
(*   SpecUp    one multipart upload Transport and the storage service      *)
(*   Spec      the Dispatcher, its queue and its Transports: a burst of    *)
(*             more task ids than admission slots                          *)
(*   SpecFew   the same Dispatcher with few task ids and more pauses,      *)
(*             failures and re-admissions                                  *)
(***************************************************************************)
EXTENDS Integers, Sequences, FiniteSets, TLC

VARIABLES
    \* ---- planner (SpecPlan)
    pl_pc,          \* "input" | "done"
    pl_in,          \* [orderedParts, maxParts, uploadSize, totalSize]
    pl_out,         \* the list _decompose returned
    \* ---- download Transport (SpecDl)
    fileExists,     \* fs.existsSync(localPath)
    localSize,      \* fs.statSync(localPath).size
    localMtime,     \* fs.statSync(localPath).mtime.getTime()
    xMetaSize,      \* content-length of the remote object
    xMetaModifiedTime, \* last-modified of the remote object
    dl_state,       \* Transport._state
    dl_stream,      \* Transport._outputStream: "none" | "open" | "ended" | "failed"
    dl_metas,       \* metadata fetches in flight: sequence of [size, mtime]
    dl_gets,        \* GET requests in flight: [begin, range, flags, id, ended]
    dl_log,         \* every decision start() took, with what it compared
    dl_emitted,     \* events the Transport emitted, in order
    dl_opened,      \* number of write streams opened so far
    dl_starts,      \* number of start() calls so far
    dl_timer,       \* a call of the debounced _checkAlive is pending
    \* ---- Dispatcher (Spec)
    d_cache,        \* Dispatcher._transportCache: uuid -> Transport (0: no entry)
    d_objs,         \* the Transport objects created so far
    d_queue,        \* async.queue: the pending entries (q._tasks), head first
    d_length,       \* async.queue: q._tasks.length
    d_running,      \* async.queue: numRunning
    d_sched,        \* async.queue: q.process scheduled with setImmediate
    d_stuck,        \* async.queue: isProcessing left true by a worker that threw
    d_crashed,      \* the process died of an uncaught exception
    d_agenda,       \* synchronous work left in the running callback
    d_ctx,          \* what runs it: "command" | "promise" | "immediate"
    d_extra,        \* so far: entries queued for a task id queued before, pause
                    \* commands, local files found present, and failures of
                    \* mkdirp and of requests
    d_lim,          \* the scenario: [tasks, extras], how many task ids there are
                    \* and how far d_extra may grow
    \* ---- upload MultiTransport (SpecUp)
    up_exists,      \* fs.existsSync(localPath)
    up_size,        \* fs.statSync(localPath).size
    up_state,       \* MultiTransport._state
    up_uploadId,    \* MultiTransport._uploadId (0: none)
    up_uploadedSize, \* MultiTransport._uploadedSize
    up_stream,      \* the run whose read stream is this._stream (0: none)
    up_runs,        \* the start() calls so far, each an async function
    up_sessions     \* the service: the multipart uploads it created, by uploadId

plVars == <<pl_pc, pl_in, pl_out>>
dlVars == <<fileExists, localSize, localMtime, xMetaSize, xMetaModifiedTime,
            dl_state, dl_stream, dl_metas, dl_gets, dl_log, dl_emitted,
            dl_opened, dl_starts, dl_timer>>
dVars  == <<d_cache, d_objs, d_queue, d_length, d_running, d_sched, d_stuck, d_crashed,
            d_agenda, d_ctx, d_extra, d_lim>>
upVars == <<up_exists, up_size, up_state, up_uploadId, up_uploadedSize,
            up_stream, up_runs, up_sessions>>

\* TransportStatus (headers.js)
UnStarted == "UnStarted"
Running   == "Running"
Paused    == "Paused"
Finished  == "Finished"
Error     == "Error"

(***************************************************************************)
(* JavaScript numbers that are not integers here: x / 0 and 0 / 0.         *)
(***************************************************************************)
Num(v)   == [k |-> "num", v |-> v]
Infinity == [k |-> "inf", v |-> 0]
NaN      == [k |-> "nan", v |-> 0]

\* Math.ceil(t / d) for an integer t >= 0 and an integer d
CeilDiv(t, d) ==
    IF d > 0 THEN Num((t + d - 1) \div d)
    ELSE IF d < 0 THEN Num(0 - (t \div (0 - d)))
    ELSE IF t > 0 THEN Infinity
    ELSE NaN

\* Math.max(a, m) for an integer a and a JavaScript number m
MathMax(a, m) ==
    CASE m.k = "nan" -> NaN
      [] m.k = "inf" -> Infinity
      [] OTHER       -> IF m.v > a THEN m ELSE Num(a)

(***************************************************************************)
(* MultiTransport._decompose                                               *)
(***************************************************************************)
kPartSize == 20 * 1024 * 1024

RECURSIVE DecomposeLoop(_, _, _, _)
\* the while loop of _decompose: leftSize, offset, partNumber, averagePartSize
DecomposeLoop(leftSize, offset, partNumber, averagePartSize) ==
    IF leftSize <= 0 THEN <<>>
    ELSE IF averagePartSize.k = "nan"
    THEN \* Math.min(leftSize, NaN) is NaN; leftSize becomes NaN and the loop ends
         << [partNumber |-> partNumber, partSize |-> "NaN", start |-> offset] >>
    ELSE LET partSize == IF averagePartSize.k = "num" /\ averagePartSize.v < leftSize
                         THEN averagePartSize.v ELSE leftSize
         IN  << [partNumber |-> partNumber, partSize |-> partSize, start |-> offset] >>
             \o DecomposeLoop(leftSize - partSize, offset + partSize,
                              partNumber + 1, averagePartSize)

\* the divisor of minPartSize as a slip would write it: the existing parts forgotten
MinPartSizeNoExisting(orderedParts, maxParts, totalSize) ==
    CeilDiv(totalSize, maxParts)

minPartSize(orderedParts, maxParts, totalSize) ==
    CeilDiv(totalSize, maxParts - Len(orderedParts))

\* averagePartSize with half the floor
AveragePartSizeHalfFloor(orderedParts, maxParts, totalSize) ==
    MathMax(kPartSize \div 2, minPartSize(orderedParts, maxParts, totalSize))

averagePartSize(orderedParts, maxParts, totalSize) ==
    MathMax(kPartSize, minPartSize(orderedParts, maxParts, totalSize))

\* _decompose walking from offset 0 instead of uploadSize
DecomposeFromZero(orderedParts, maxParts, uploadSize, totalSize) ==
    DecomposeLoop(totalSize - uploadSize, 0, Len(orderedParts) + 1,
                  averagePartSize(orderedParts, maxParts, totalSize))

_decompose(orderedParts, maxParts, uploadSize, totalSize) ==
    DecomposeLoop(totalSize - uploadSize, uploadSize, Len(orderedParts) + 1,
                  averagePartSize(orderedParts, maxParts, totalSize))

\* ---- bounds of the planner's inputs
MaxExisting == 3      \* already-existing parts: 0..MaxExisting
MaxMaxParts == 3      \* maxParts: 1..MaxMaxParts
MaxChunks   == 4      \* sizes up to MaxChunks * kPartSize + 1

PlanSizes == { s \in { a * kPartSize + b : a \in 0..MaxChunks, b \in {-1, 0, 1} } : s >= 0 }

\* n existing parts, ordered by partNumber (only their number matters to _decompose)
ExistingParts(n) == [i \in 1..n |-> [partNumber |-> i, size |-> 0]]

PlanInit ==
    /\ pl_pc = "input"
    /\ pl_in \in [orderedParts : {ExistingParts(n) : n \in 0..MaxExisting},
                  maxParts     : 1..MaxMaxParts,
                  uploadSize   : PlanSizes,
                  totalSize    : PlanSizes]
    /\ pl_out = <<>>
    \* the other parts are idle
    /\ fileExists = FALSE /\ localSize = 0 /\ localMtime = 0
    /\ xMetaSize = 0 /\ xMetaModifiedTime = 0
    /\ dl_state = UnStarted /\ dl_stream = "none"
    /\ dl_metas = <<>> /\ dl_gets = <<>> /\ dl_log = <<>> /\ dl_emitted = <<>>
    /\ dl_opened = 0 /\ dl_starts = 0 /\ dl_timer = FALSE
    /\ d_cache = <<>> /\ d_objs = <<>> /\ d_queue = <<>> /\ d_length = 0
    /\ d_running = 0
    /\ d_sched = FALSE /\ d_stuck = FALSE /\ d_crashed = FALSE
    /\ d_agenda = <<>> /\ d_ctx = "none" /\ d_extra = 0 /\ d_lim = <<>>
    /\ up_exists = FALSE /\ up_size = 0 /\ up_state = UnStarted
    /\ up_uploadId = 0 /\ up_uploadedSize = 0 /\ up_stream = 0
    /\ up_runs = <<>> /\ up_sessions = <<>>

Decompose ==
    /\ pl_pc = "input"
    /\ pl_out' = _decompose(pl_in.orderedParts, pl_in.maxParts,
                            pl_in.uploadSize, pl_in.totalSize)
    /\ pl_pc' = "done"
    /\ UNCHANGED <<pl_in, dlVars, dVars, upVars>>

PlanNext == Decompose

(***************************************************************************)
(* Download Transport (src/downloader/Transport.js)                        *)
(***************************************************************************)
\* ---- bounds of the download model
MaxSize   == 2        \* file and object sizes: 0..MaxSize
MaxTime   == 1        \* modification times at the start: 0..MaxTime
MaxStarts == 2        \* start() calls on the Transport
MaxPauses == 1        \* pause() calls on the Transport

\* the modification time of a file written during the run: later than any initial one
NowTime == MaxTime + 1

\* the Range header of resume(): '' when begin is 0
NoRange == [ranged |-> FALSE, from |-> 0, to |-> 0]
RangeHeader(begin, end) ==
    IF begin # 0 THEN [ranged |-> TRUE, from |-> begin, to |-> end] ELSE NoRange

\* the flags resume() opens the write stream with
StreamFlags(begin) == IF begin # 0 THEN "a" ELSE "w"

\* the comparison of start() with a strict size test
StartDecisionStrict(size, mtime, metaSize, metaModifiedTime) ==
    IF size > metaSize \/ mtime <= metaModifiedTime
    THEN [act |-> "resume", begin |-> 0, end |-> 0]
    ELSE IF size < metaSize
    THEN [act |-> "resume", begin |-> size, end |-> metaSize]
    ELSE [act |-> "finish", begin |-> 0, end |-> 0]

\* what the metadata callback of start() does with (size, mtime) of the local file
StartDecision(size, mtime, metaSize, metaModifiedTime) ==
    IF size >= metaSize \/ mtime <= metaModifiedTime
    THEN [act |-> "resume", begin |-> 0, end |-> 0]
    ELSE IF size < metaSize
    THEN [act |-> "resume", begin |-> size, end |-> metaSize]
    ELSE [act |-> "finish", begin |-> 0, end |-> 0]

\* _checkFinish / _checkError: act only on a Running Transport
CheckFinishState(st) == IF st = Running THEN Finished ELSE st
CheckErrorState(st)  == IF st = Running THEN Error ELSE st
CheckFinishEmit(st, em) == IF st = Running THEN Append(em, "finish") ELSE em
CheckErrorEmit(st, em)  == IF st = Running THEN Append(em, "error") ELSE em

\* this._outputStream.end(): the GET that is piped into the newest stream, if
\* it is in flight, has its stream ended
EndStream(gets, opened) ==
    [j \in 1..Len(gets) |->
        IF gets[j].id = opened THEN [gets[j] EXCEPT !.ended = TRUE] ELSE gets[j]]

RemoveAt(s, i) == [j \in 1..(Len(s) - 1) |-> IF j < i THEN s[j] ELSE s[j + 1]]
CountOf(s, x)  == Cardinality({i \in 1..Len(s) : s[i] = x})

DlInit ==
    /\ fileExists \in BOOLEAN
    /\ localSize \in 0..MaxSize
    /\ localMtime \in 0..MaxTime
    /\ ~fileExists => (localSize = 0 /\ localMtime = 0)
    /\ xMetaSize \in 0..MaxSize
    /\ xMetaModifiedTime \in 0..MaxTime
    /\ dl_state = UnStarted
    /\ dl_stream = "none"
    /\ dl_metas = <<>>
    /\ dl_gets = <<>>
    /\ dl_log = <<>>
    /\ dl_emitted = <<>>
    /\ dl_opened = 0
    /\ dl_starts = 0
    /\ dl_timer = FALSE
    \* the other parts are idle
    /\ pl_pc = "idle" /\ pl_in = <<>> /\ pl_out = <<>>
    /\ d_cache = <<>> /\ d_objs = <<>> /\ d_queue = <<>> /\ d_length = 0
    /\ d_running = 0
    /\ d_sched = FALSE /\ d_stuck = FALSE /\ d_crashed = FALSE
    /\ d_agenda = <<>> /\ d_ctx = "none" /\ d_extra = 0 /\ d_lim = <<>>
    /\ up_exists = FALSE /\ up_size = 0 /\ up_state = UnStarted
    /\ up_uploadId = 0 /\ up_uploadedSize = 0 /\ up_stream = 0
    /\ up_runs = <<>> /\ up_sessions = <<>>

\* the scenario of the stream and watchdog events: a remote object of the
\* largest size and the oldest time; the local file absent, or present and newer
DlInitIo ==
    /\ fileExists \in BOOLEAN
    /\ localSize \in 0..MaxSize
    /\ localMtime = (IF fileExists THEN MaxTime ELSE 0)
    /\ ~fileExists => localSize = 0
    /\ xMetaSize = MaxSize
    /\ xMetaModifiedTime = 0
    /\ dl_state = UnStarted
    /\ dl_stream = "none"
    /\ dl_metas = <<>>
    /\ dl_gets = <<>>
    /\ dl_log = <<>>
    /\ dl_emitted = <<>>
    /\ dl_opened = 0
    /\ dl_starts = 0
    /\ dl_timer = FALSE
    \* the other parts are idle
    /\ pl_pc = "idle" /\ pl_in = <<>> /\ pl_out = <<>>
    /\ d_cache = <<>> /\ d_objs = <<>> /\ d_queue = <<>> /\ d_length = 0
    /\ d_running = 0
    /\ d_sched = FALSE /\ d_stuck = FALSE /\ d_crashed = FALSE
    /\ d_agenda = <<>> /\ d_ctx = "none" /\ d_extra = 0 /\ d_lim = <<>>
    /\ up_exists = FALSE /\ up_size = 0 /\ up_state = UnStarted
    /\ up_uploadId = 0 /\ up_uploadedSize = 0 /\ up_stream = 0
    /\ up_runs = <<>> /\ up_sessions = <<>>

\* resume(begin, end): open the write stream, send the GET
DlResume(begin, end) ==
    /\ dl_stream' = "open"
    /\ dl_opened' = dl_opened + 1
    /\ dl_gets' = Append(dl_gets, [begin |-> begin,
                                   range |-> RangeHeader(begin, end),
                                   flags |-> StreamFlags(begin),
                                   id |-> dl_opened + 1,
                                   ended |-> FALSE])
    /\ fileExists' = TRUE
    /\ IF StreamFlags(begin) = "w"
       THEN localSize' = 0 /\ localMtime' = NowTime
       ELSE UNCHANGED <<localSize, localMtime>>

\* start(), local file absent, directories created: resume()
DlStartFresh ==
    /\ dl_starts < MaxStarts
    /\ ~fileExists
    /\ dl_starts' = dl_starts + 1
    /\ dl_state' = Running
    /\ DlResume(0, 0)
    /\ UNCHANGED <<xMetaSize, xMetaModifiedTime, dl_metas, dl_log, dl_emitted>>
    /\ UNCHANGED <<dl_timer, plVars, dVars, upVars>>

\* start(), local file absent, mkdirp throws: _checkError
DlStartMkdirFails ==
    /\ dl_starts < MaxStarts
    /\ ~fileExists
    /\ dl_starts' = dl_starts + 1
    /\ dl_state' = Error
    /\ dl_emitted' = Append(dl_emitted, "error")
    /\ UNCHANGED <<fileExists, localSize, localMtime, xMetaSize, xMetaModifiedTime,
                   dl_stream, dl_metas, dl_gets, dl_log, dl_opened>>
    /\ UNCHANGED <<dl_timer, plVars, dVars, upVars>>

\* start(), local file present: stat it and fetch the metadata
DlStartExisting ==
    /\ dl_starts < MaxStarts
    /\ fileExists
    /\ dl_starts' = dl_starts + 1
    /\ dl_state' = Running
    /\ dl_metas' = Append(dl_metas, [size |-> localSize, mtime |-> localMtime])
    /\ UNCHANGED <<fileExists, localSize, localMtime, xMetaSize, xMetaModifiedTime,
                   dl_stream, dl_gets, dl_log, dl_emitted, dl_opened>>
    /\ UNCHANGED <<dl_timer, plVars, dVars, upVars>>

\* the metadata arrives: the decision of start()
DlMetaOk ==
    \E i \in 1..Len(dl_metas) :
      LET m == dl_metas[i]
          d == StartDecision(m.size, m.mtime, xMetaSize, xMetaModifiedTime)
          entry == [size |-> m.size, mtime |-> m.mtime,
                    metaSize |-> xMetaSize, metaModifiedTime |-> xMetaModifiedTime,
                    act |-> d.act, begin |-> d.begin,
                    range |-> RangeHeader(d.begin, d.end),
                    flags |-> StreamFlags(d.begin),
                    opened |-> (d.act = "resume"),
                    stateBefore |-> dl_state]
      IN /\ dl_metas' = RemoveAt(dl_metas, i)
         /\ dl_log' = Append(dl_log, entry)
         /\ IF d.act = "resume"
            THEN /\ DlResume(d.begin, d.end)
                 /\ UNCHANGED <<dl_state, dl_emitted>>
            ELSE /\ dl_state' = CheckFinishState(dl_state)
                 /\ dl_emitted' = CheckFinishEmit(dl_state, dl_emitted)
                 /\ UNCHANGED <<fileExists, localSize, localMtime, dl_stream,
                                dl_gets, dl_opened>>
         /\ UNCHANGED <<xMetaSize, xMetaModifiedTime, dl_starts>>
      /\ UNCHANGED <<dl_timer, plVars, dVars, upVars>>

\* the metadata fetch fails: _checkError
DlMetaFail ==
    \E i \in 1..Len(dl_metas) :
      /\ dl_metas' = RemoveAt(dl_metas, i)
      /\ dl_state' = CheckErrorState(dl_state)
      /\ dl_emitted' = CheckErrorEmit(dl_state, dl_emitted)
      /\ UNCHANGED <<fileExists, localSize, localMtime, xMetaSize, xMetaModifiedTime,
                     dl_stream, dl_gets, dl_log, dl_opened, dl_starts>>
      /\ UNCHANGED <<dl_timer, plVars, dVars, upVars>>

\* the GET resolves: _checkFinish; the response has been piped into the file
DlGetOk ==
    \E i \in 1..Len(dl_gets) :
      /\ dl_gets' = RemoveAt(dl_gets, i)
      /\ dl_state' = CheckFinishState(dl_state)
      /\ dl_emitted' = CheckFinishEmit(dl_state, dl_emitted)
      /\ IF dl_stream = "open"
         THEN localSize' = xMetaSize /\ localMtime' = NowTime
         ELSE UNCHANGED <<localSize, localMtime>>
      /\ UNCHANGED <<fileExists, xMetaSize, xMetaModifiedTime, dl_stream, dl_metas,
                     dl_log, dl_opened, dl_starts>>
      /\ UNCHANGED <<dl_timer, plVars, dVars, upVars>>

\* the GET rejects: _checkError
DlGetFail ==
    \E i \in 1..Len(dl_gets) :
      /\ dl_gets' = RemoveAt(dl_gets, i)
      /\ dl_state' = CheckErrorState(dl_state)
      /\ dl_emitted' = CheckErrorEmit(dl_state, dl_emitted)
      /\ UNCHANGED <<fileExists, localSize, localMtime, xMetaSize, xMetaModifiedTime,
                     dl_stream, dl_metas, dl_log, dl_opened, dl_starts>>
      /\ UNCHANGED <<dl_timer, plVars, dVars, upVars>>

\* pause(): mark Paused, end the write stream (some of the object may have been
\* written by then), emit pause
DlPause ==
    /\ CountOf(dl_emitted, "pause") < MaxPauses
    /\ dl_state' = Paused
    /\ dl_emitted' = Append(dl_emitted, "pause")
    /\ IF dl_stream = "open"
       THEN /\ dl_stream' = "ended"
            /\ dl_gets' = EndStream(dl_gets, dl_opened)
            /\ \E n \in 0..MaxSize :
                 /\ localSize <= n
                 /\ n <= (IF xMetaSize > localSize THEN xMetaSize ELSE localSize)
                 /\ localSize' = n
            /\ localMtime' = NowTime
       ELSE UNCHANGED <<dl_stream, dl_gets, localSize, localMtime>>
    /\ UNCHANGED <<fileExists, xMetaSize, xMetaModifiedTime, dl_metas,
                   dl_log, dl_opened, dl_starts>>
    /\ UNCHANGED <<dl_timer, plVars, dVars, upVars>>

\* error codes of the write stream: the handler of resume() knows one of them
StreamErrorCodes == {"EACCES", "ENOSPC"}

\* the 'error' event of the write stream with err.code = code: _checkError for
\* EACCES, nothing for any other code; the stream is destroyed
DlStreamErrorOf(code) ==
    /\ dl_stream = "open"
    /\ dl_stream' = "failed"
    /\ IF code = "EACCES"
       THEN /\ dl_state' = CheckErrorState(dl_state)
            /\ dl_emitted' = CheckErrorEmit(dl_state, dl_emitted)
       ELSE UNCHANGED <<dl_state, dl_emitted>>
    /\ UNCHANGED <<fileExists, localSize, localMtime, xMetaSize, xMetaModifiedTime,
                   dl_metas, dl_gets, dl_log, dl_opened, dl_starts, dl_timer>>
    /\ UNCHANGED <<plVars, dVars, upVars>>

DlStreamError == \E code \in StreamErrorCodes : DlStreamErrorOf(code)

\* the 'drain' event of the write stream while the response is piped into it:
\* _checkAlive() starts the debounce timer (a call while it runs restarts it,
\* which leaves the state as it is)
DlDrain ==
    /\ dl_stream = "open"
    /\ dl_gets # <<>>
    /\ ~dl_timer
    /\ dl_timer' = TRUE
    /\ UNCHANGED <<fileExists, localSize, localMtime, xMetaSize, xMetaModifiedTime,
                   dl_state, dl_stream, dl_metas, dl_gets, dl_log, dl_emitted,
                   dl_opened, dl_starts>>
    /\ UNCHANGED <<plVars, dVars, upVars>>

\* the debounce timer expires: _onTimeout
DlTimeout ==
    /\ dl_timer
    /\ dl_timer' = FALSE
    /\ IF dl_stream # "none" /\ dl_state = Running
       THEN /\ dl_state' = Error
            /\ dl_emitted' = Append(dl_emitted, "error")
            /\ IF dl_stream = "open"
               THEN /\ dl_stream' = "ended"
                    /\ dl_gets' = EndStream(dl_gets, dl_opened)
                    /\ \E n \in 0..MaxSize :
                         /\ localSize <= n
                         /\ n <= (IF xMetaSize > localSize THEN xMetaSize ELSE localSize)
                         /\ localSize' = n
                    /\ localMtime' = NowTime
               ELSE UNCHANGED <<dl_stream, dl_gets, localSize, localMtime>>
       ELSE UNCHANGED <<dl_state, dl_emitted, dl_stream, dl_gets, localSize,
                        localMtime>>
    /\ UNCHANGED <<fileExists, xMetaSize, xMetaModifiedTime, dl_metas,
                   dl_log, dl_opened, dl_starts>>
    /\ UNCHANGED <<plVars, dVars, upVars>>

DlNext ==
    \/ DlStartFresh
    \/ DlStartMkdirFails
    \/ DlStartExisting
    \/ DlMetaOk
    \/ DlMetaFail
    \/ DlGetOk
    \/ DlGetFail
    \/ DlPause

\* the same with the events of the write stream and of the watchdog timer
DlNextIo ==
    \/ DlStartFresh
    \/ DlStartMkdirFails
    \/ DlStartExisting
    \/ DlMetaOk
    \/ DlMetaFail
    \/ DlGetOk
    \/ DlGetFail
    \/ DlPause
    \/ DlStreamError
    \/ DlDrain
    \/ DlTimeout

(***************************************************************************)
(* Upload MultiTransport.start (src/uploader/Transport.js)                 *)
(*                                                                         *)
(* Every start() call is an async function, here a run, suspended at one   *)
(* of its awaits:                                                          *)
(*   pc     "consistency" | "init" | "fetch" | "put" | "complete" | "done" *)
(*   id     the uploadId the request in flight was issued with             *)
(*   todo   the parts left in the part queue, the head being uploaded      *)
(*   ended  its read stream was ended while the PUT was in flight          *)
(*   dup    the part being uploaded was already accepted by the service    *)
(*          when the PUT was issued                                        *)
(* The base class (./transport: pause, _checkFinish, _checkError and the   *)
(* requests _checkConsistency, _initUploadId, _fetchParts,                 *)
(* _completeUpload) and the storage service follow the specification.      *)
(***************************************************************************)
MaxUpStarts == 3      \* start() calls on the Transport
MaxUpChunks == 2      \* file sizes of 1..MaxUpChunks parts

\* the service's ceiling, returned by listParts as maxParts
ServiceMaxParts == 1000

UpSizes == { (c - 1) * kPartSize + 1 : c \in 1..MaxUpChunks }

\* ---- the storage service
NewSession == [parts |-> {}, completed |-> FALSE]

PartNumbers(session) == { q.partNumber : q \in session.parts }

\* uploadPart: a part number uploaded again replaces the earlier part
AcceptPart(session, partNumber, size) ==
    [session EXCEPT !.parts = { q \in @ : q.partNumber # partNumber }
                              \cup { [partNumber |-> partNumber, size |-> size] }]

RECURSIVE SortParts(_)
SortParts(parts) ==
    IF parts = {} THEN <<>>
    ELSE LET lo == CHOOSE q \in parts : \A x \in parts : q.partNumber <= x.partNumber
         IN  <<lo>> \o SortParts(parts \ {lo})

RECURSIVE SumParts(_)
SumParts(parts) == IF parts = <<>> THEN 0 ELSE Head(parts).size + SumParts(Tail(parts))

\* ---- the base class
UpCheckFinish(st) == IF st = Running THEN Finished ELSE st
UpCheckError(st)  == IF st = Running THEN Error ELSE st

\* ---- the runs
DoneRun == [pc |-> "done", id |-> 0, todo |-> <<>>, ended |-> FALSE, dup |-> FALSE]

Awaiting(pc, id) == [pc |-> pc, id |-> id, todo |-> <<>>, ended |-> FALSE, dup |-> FALSE]

\* _invoke: the PUT of the head of the part queue, with this._uploadId
PutRun(todo, uploadId, sessions) ==
    [pc |-> "put", id |-> uploadId, todo |-> todo, ended |-> FALSE,
     dup |-> Head(todo).partNumber \in PartNumbers(sessions[uploadId])]

UpInit ==
    /\ up_exists \in BOOLEAN
    /\ up_size \in UpSizes
    /\ up_state = UnStarted
    /\ up_uploadId = 0
    /\ up_uploadedSize = 0
    /\ up_stream = 0
    /\ up_runs = <<>>
    /\ up_sessions = <<>>
    \* the other parts are idle
    /\ pl_pc = "idle" /\ pl_in = <<>> /\ pl_out = <<>>
    /\ fileExists = FALSE /\ localSize = 0 /\ localMtime = 0
    /\ xMetaSize = 0 /\ xMetaModifiedTime = 0
    /\ dl_state = UnStarted /\ dl_stream = "none"
    /\ dl_metas = <<>> /\ dl_gets = <<>> /\ dl_log = <<>> /\ dl_emitted = <<>>
    /\ dl_opened = 0 /\ dl_starts = 0 /\ dl_timer = FALSE
    /\ d_cache = <<>> /\ d_objs = <<>> /\ d_queue = <<>> /\ d_length = 0
    /\ d_running = 0
    /\ d_sched = FALSE /\ d_stuck = FALSE /\ d_crashed = FALSE
    /\ d_agenda = <<>> /\ d_ctx = "none" /\ d_extra = 0 /\ d_lim = <<>>

\* a Transport is started when it is admitted: new, or again after a pause or
\* an error
UpStartable == up_state \in {UnStarted, Paused, Error} /\ Len(up_runs) < MaxUpStarts

\* start(): the local file is missing
UpStartNoFile ==
    /\ UpStartable
    /\ ~up_exists
    /\ up_state' = UpCheckError(Running)
    /\ up_runs' = Append(up_runs, DoneRun)
    /\ UNCHANGED <<up_exists, up_size, up_uploadId, up_uploadedSize, up_stream,
                   up_sessions>>
    /\ UNCHANGED <<plVars, dlVars, dVars>>

\* start(): without an uploadId the consistency check is awaited first, with
\* one the parts are fetched at once
UpStart ==
    /\ UpStartable
    /\ up_exists
    /\ up_state' = Running
    /\ up_runs' = Append(up_runs, IF up_uploadId = 0
                                  THEN Awaiting("consistency", 0)
                                  ELSE Awaiting("fetch", up_uploadId))
    /\ UNCHANGED <<up_exists, up_size, up_uploadId, up_uploadedSize, up_stream,
                   up_sessions>>
    /\ UNCHANGED <<plVars, dlVars, dVars>>

\* the object is on the service already: _checkFinish
UpConsistent ==
    \E r \in 1..Len(up_runs) :
      /\ up_runs[r].pc = "consistency"
      /\ up_state' = UpCheckFinish(up_state)
      /\ up_runs' = [up_runs EXCEPT ![r] = DoneRun]
      /\ UNCHANGED <<up_exists, up_size, up_uploadId, up_uploadedSize, up_stream,
                     up_sessions>>
      /\ UNCHANGED <<plVars, dlVars, dVars>>

\* it is not: _initUploadId is called
UpInconsistent ==
    \E r \in 1..Len(up_runs) :
      /\ up_runs[r].pc = "consistency"
      /\ up_runs' = [up_runs EXCEPT ![r] = Awaiting("init", 0)]
      /\ UNCHANGED <<up_exists, up_size, up_state, up_uploadId, up_uploadedSize,
                     up_stream, up_sessions>>
      /\ UNCHANGED <<plVars, dlVars, dVars>>

\* the service created a multipart upload: this._uploadId is set and
\* _fetchParts is called
UpInitOk ==
    \E r \in 1..Len(up_runs) :
      /\ up_runs[r].pc = "init"
      /\ up_sessions' = Append(up_sessions, NewSession)
      /\ up_uploadId' = Len(up_sessions) + 1
      /\ up_runs' = [up_runs EXCEPT ![r] = Awaiting("fetch", Len(up_sessions) + 1)]
      /\ UNCHANGED <<up_exists, up_size, up_state, up_uploadedSize, up_stream>>
      /\ UNCHANGED <<plVars, dlVars, dVars>>

\* what start() does once a run has no part left to upload, or has the next
\* part's PUT to issue
NextStep(todo, uploadId, sessions) ==
    IF todo = <<>> THEN Awaiting("complete", uploadId)
    ELSE PutRun(todo, uploadId, sessions)

\* _fetchParts resolved: sort, _uploadedSize, _decompose, then resume(remainParts)
\* whose queue issues the first PUT, or _completeUpload when nothing remains
UpFetchOk ==
    \E r \in 1..Len(up_runs) :
      /\ up_runs[r].pc = "fetch"
      /\ ~up_sessions[up_runs[r].id].completed
      /\ LET orderedParts == SortParts(up_sessions[up_runs[r].id].parts)
             uploaded     == SumParts(orderedParts)
             remainParts  == _decompose(orderedParts, ServiceMaxParts, uploaded, up_size)
         IN  /\ up_uploadedSize' = uploaded
             /\ up_runs' = [up_runs EXCEPT
                              ![r] = NextStep(remainParts, up_uploadId, up_sessions)]
             /\ up_stream' = IF remainParts = <<>> THEN up_stream ELSE r
      /\ UNCHANGED <<up_exists, up_size, up_state, up_uploadId, up_sessions>>
      /\ UNCHANGED <<plVars, dlVars, dVars>>

\* a PUT succeeded: the service has the part, _uploadedSize grows, done() lets
\* the part queue issue the next PUT; when it drains, _completeUpload is called
UpPutOk ==
    \E r \in 1..Len(up_runs) :
      /\ up_runs[r].pc = "put"
      /\ ~up_runs[r].ended
      /\ ~up_sessions[up_runs[r].id].completed
      /\ LET part == Head(up_runs[r].todo)
             sessions1 == [up_sessions EXCEPT ![up_runs[r].id] =
                             AcceptPart(@, part.partNumber, part.partSize)]
         IN  /\ up_sessions' = sessions1
             /\ up_uploadedSize' = up_uploadedSize + part.partSize
             /\ up_runs' = [up_runs EXCEPT
                              ![r] = NextStep(Tail(up_runs[r].todo), up_uploadId, sessions1)]
             /\ up_stream' = IF Tail(up_runs[r].todo) = <<>> THEN up_stream ELSE r
      /\ UNCHANGED <<up_exists, up_size, up_state, up_uploadId>>
      /\ UNCHANGED <<plVars, dlVars, dVars>>

\* a PUT failed: done(err), the part queue is killed, start() catches the
\* rejection: _checkError
UpPutFail ==
    \E r \in 1..Len(up_runs) :
      /\ up_runs[r].pc = "put"
      /\ up_state' = UpCheckError(up_state)
      /\ up_runs' = [up_runs EXCEPT ![r] = DoneRun]
      /\ UNCHANGED <<up_exists, up_size, up_uploadId, up_uploadedSize, up_stream,
                     up_sessions>>
      /\ UNCHANGED <<plVars, dlVars, dVars>>

\* _completeUpload resolved: _checkFinish
UpCompleteOk ==
    \E r \in 1..Len(up_runs) :
      /\ up_runs[r].pc = "complete"
      /\ ~up_sessions[up_runs[r].id].completed
      /\ up_sessions' = [up_sessions EXCEPT ![up_runs[r].id].completed = TRUE]
      /\ up_state' = UpCheckFinish(up_state)
      /\ up_runs' = [up_runs EXCEPT ![r] = DoneRun]
      /\ UNCHANGED <<up_exists, up_size, up_uploadId, up_uploadedSize, up_stream>>
      /\ UNCHANGED <<plVars, dlVars, dVars>>

\* an awaited request was rejected: start() catches it, _checkError
UpRequestFail ==
    \E r \in 1..Len(up_runs) :
      /\ up_runs[r].pc \in {"consistency", "init", "fetch", "complete"}
      /\ up_state' = UpCheckError(up_state)
      /\ up_runs' = [up_runs EXCEPT ![r] = DoneRun]
      /\ UNCHANGED <<up_exists, up_size, up_uploadId, up_uploadedSize, up_stream,
                     up_sessions>>
      /\ UNCHANGED <<plVars, dlVars, dVars>>

\* pause(): the Transport is Paused and its active stream ends; the runs
\* suspended at an await stay suspended there
UpPause ==
    /\ up_state = Running
    /\ up_state' = Paused
    /\ up_runs' = IF up_stream # 0 /\ up_runs[up_stream].pc = "put"
                  THEN [up_runs EXCEPT ![up_stream].ended = TRUE]
                  ELSE up_runs
    /\ UNCHANGED <<up_exists, up_size, up_uploadId, up_uploadedSize, up_stream,
                   up_sessions>>
    /\ UNCHANGED <<plVars, dlVars, dVars>>

UpNext ==
    \/ UpStartNoFile
    \/ UpStart
    \/ UpConsistent
    \/ UpInconsistent
    \/ UpInitOk
    \/ UpFetchOk
    \/ UpPutOk
    \/ UpPutFail
    \/ UpCompleteOk
    \/ UpRequestFail
    \/ UpPause

(***************************************************************************)
(* Dispatcher (src/downloader/dispatcher.js) with its async.queue          *)
(*                                                                         *)
(* A Transport object of the Dispatcher is a record:                       *)
(*   uuid, state     Transport._uuid, Transport._state                     *)
(*   key             Transport._objectKey and _localPath, as the place of  *)
(*                   the item in the command's list of object keys         *)
(*   live            admissions of it whose done() has not been called     *)
(*   fired           some done() registered on it has been called: the     *)
(*                   listeners of _invoke are never removed, so every      *)
(*                   later event reaches that done() first, and async's    *)
(*                   onlyOnce throws "Callback was already called."        *)
(*   metas, gets     metadata fetches and GET requests in flight           *)
(*   stream          Transport._outputStream: "none" | "open" | "ended"    *)
(*   act             admissions started since its last pause/finish/error  *)
(***************************************************************************)
Concurrency == 5

\* ---- bounds of the dispatcher model
ExtraTasks  == 1      \* burst scenario: task ids 1..Concurrency + ExtraTasks
BurstExtras == 1      \* burst scenario: how far d_extra may grow
FewTasks    == 2      \* re-admission scenario: task ids 1..FewTasks
FewExtras   == 3      \* re-admission scenario: how far d_extra may grow
MaxPatch    == 2      \* object keys of one addPatch

Uuids == 1..d_lim.tasks

\* new Transport(config): key is the place, in the list of object keys of the
\* command, of the item whose objectKey and localPath the config carries
NewTransport(u, key) ==
    [uuid |-> u, key |-> key, state |-> UnStarted, live |-> 0, fired |-> FALSE,
     metas |-> 0, gets |-> 0, stream |-> "none", act |-> 0]

isPaused(ob) == ob.state = Paused

\* the loop condition of q.process, one slot too many
CanStartOffByOne(running) == running <= Concurrency

\* the loop condition of q.process: numRunning < q.concurrency
CanStart(running) == running < Concurrency

\* an event of ob reaches a done() that was called before: onlyOnce throws
Throws(ob) == ob.fired

HasListeners(ob) == ob.fired \/ ob.live > 0

\* the done() callbacks an event of ob calls
Dones(ob) == IF Throws(ob) THEN 0 ELSE ob.live

\* the notifications an event of ob sends: every listener sends one before it
\* calls its done(); the listeners of ended admissions come first, and the
\* first of them throws in its done(), so that no later listener runs
Notified(ob) == IF Throws(ob) THEN 1 ELSE ob.live

\* the Transport after the listeners of _invoke ran on one of its events
AfterEmit(ob) ==
    IF Throws(ob)
    THEN [ob EXCEPT !.act = 0]
    ELSE [ob EXCEPT !.live = 0, !.fired = (ob.live > 0), !.act = 0]

\* the finish listener that forgets to delete the cache entry
CacheAfterKeep(cache, ob, ev) == cache

\* the finish listener deletes the cache entry of msg.uuid
CacheAfter(cache, ob, ev) ==
    IF ev = "finish" /\ HasListeners(ob)
    THEN [cache EXCEPT ![ob.uuid] = 0]
    ELSE cache

\* pause() of the Transport, before its event
PausedTransport(ob) ==
    [ob EXCEPT !.state = Paused,
               !.stream = IF ob.stream = "none" THEN "none" ELSE "ended"]

\* an exception leaves the callback: uncaught in a message handler or a
\* setImmediate callback, an unhandled rejection in a promise callback
Uncaught(ctx) ==
    IF ctx = "promise" THEN d_crashed' \in BOOLEAN ELSE d_crashed' = TRUE

DIdle == d_agenda = <<>> /\ ~d_crashed

UsedUuids == {d_objs[i].uuid : i \in 1..Len(d_objs)}

\* the burst scenario: more task ids than slots
Init ==
    /\ d_cache = [u \in 1..(Concurrency + ExtraTasks) |-> 0]
    /\ d_objs = <<>>
    /\ d_queue = <<>>
    /\ d_length = 0
    /\ d_running = 0
    /\ d_sched = FALSE
    /\ d_stuck = FALSE
    /\ d_crashed = FALSE
    /\ d_agenda = <<>>
    /\ d_ctx = "none"
    /\ d_extra = 0
    /\ d_lim = [tasks |-> Concurrency + ExtraTasks, extras |-> BurstExtras]
    \* the other parts are idle
    /\ pl_pc = "idle" /\ pl_in = <<>> /\ pl_out = <<>>
    /\ fileExists = FALSE /\ localSize = 0 /\ localMtime = 0
    /\ xMetaSize = 0 /\ xMetaModifiedTime = 0
    /\ dl_state = UnStarted /\ dl_stream = "none"
    /\ dl_metas = <<>> /\ dl_gets = <<>> /\ dl_log = <<>> /\ dl_emitted = <<>>
    /\ dl_opened = 0 /\ dl_starts = 0 /\ dl_timer = FALSE
    /\ up_exists = FALSE /\ up_size = 0 /\ up_state = UnStarted
    /\ up_uploadId = 0 /\ up_uploadedSize = 0 /\ up_stream = 0
    /\ up_runs = <<>> /\ up_sessions = <<>>

\* the re-admission scenario: few task ids, paused, failed and admitted again
InitFew ==
    /\ d_cache = [u \in 1..FewTasks |-> 0]
    /\ d_objs = <<>>
    /\ d_queue = <<>>
    /\ d_length = 0
    /\ d_running = 0
    /\ d_sched = FALSE
    /\ d_stuck = FALSE
    /\ d_crashed = FALSE
    /\ d_agenda = <<>>
    /\ d_ctx = "none"
    /\ d_extra = 0
    /\ d_lim = [tasks |-> FewTasks, extras |-> FewExtras]
    \* the other parts are idle
    /\ pl_pc = "idle" /\ pl_in = <<>> /\ pl_out = <<>>
    /\ fileExists = FALSE /\ localSize = 0 /\ localMtime = 0
    /\ xMetaSize = 0 /\ xMetaModifiedTime = 0
    /\ dl_state = UnStarted /\ dl_stream = "none"
    /\ dl_metas = <<>> /\ dl_gets = <<>> /\ dl_log = <<>> /\ dl_emitted = <<>>
    /\ dl_opened = 0 /\ dl_starts = 0 /\ dl_timer = FALSE
    /\ up_exists = FALSE /\ up_size = 0 /\ up_state = UnStarted
    /\ up_uploadId = 0 /\ up_uploadedSize = 0 /\ up_stream = 0
    /\ up_runs = <<>> /\ up_sessions = <<>>

\* an event of Transport o, emitted from a message handler or a promise callback
TopEmit(objs1, o, ev, ctx) ==
    /\ d_objs' = [objs1 EXCEPT ![o] = AfterEmit(objs1[o])]
    /\ d_cache' = CacheAfter(d_cache, objs1[o], ev)
    /\ IF Throws(objs1[o])
       THEN /\ d_agenda' = <<>>
            /\ d_ctx' = "none"
            /\ Uncaught(ctx)
       ELSE /\ d_agenda' = [i \in 1..Dones(objs1[o]) |-> "done"]
            /\ d_ctx' = IF Dones(objs1[o]) > 0 THEN ctx ELSE "none"
            /\ d_crashed' = d_crashed
    /\ UNCHANGED <<d_queue, d_length, d_running, d_sched, d_stuck, d_lim>>

\* a callback of Transport o that emits nothing
Quiet(objs1) ==
    /\ d_objs' = objs1
    /\ UNCHANGED <<d_cache, d_queue, d_length, d_running, d_sched, d_stuck,
                   d_crashed, d_agenda, d_ctx, d_lim>>

\* q.unshift, n times, of Transport o; again of them are for a task id queued
\* before. The list sets its length to 1 when it has no head, and adds 1 to it
\* otherwise.
Insert(o, n, again) ==
    /\ d_extra + again <= d_lim.extras
    /\ d_queue' = [i \in 1..n |-> o] \o d_queue
    /\ d_length' = IF d_queue = <<>> THEN n ELSE d_length + n
    /\ d_sched' = TRUE
    /\ d_extra' = d_extra + again
    /\ UNCHANGED <<d_running, d_stuck, d_crashed, d_agenda, d_ctx, d_lim>>

\* addItem, n times with the same uuid, for the items 1..n of a list of object
\* keys: the Transport is created by the first call, for item 1, if the cache
\* has none; the later calls find it in the cache; resumeItem puts it at the
\* front each time
AddItems(u, n) ==
    /\ DIdle
    /\ \A v \in Uuids : v < u => v \in UsedUuids
    /\ IF d_cache[u] = 0
       THEN /\ d_objs' = Append(d_objs, NewTransport(u, 1))
            /\ d_cache' = [d_cache EXCEPT ![u] = Len(d_objs) + 1]
       ELSE UNCHANGED <<d_objs, d_cache>>
    /\ Insert(d_cache'[u], n, IF u \in UsedUuids THEN n ELSE n - 1)
    /\ UNCHANGED <<plVars, dlVars, upVars>>

addItem == \E u \in Uuids : AddItems(u, 1)

\* addPatch: one addItem per object key, all with the uuid of the patch
addPatch == \E u \in Uuids : \E n \in 2..MaxPatch : AddItems(u, n)

resumeItem ==
    \E u \in Uuids :
      /\ DIdle
      /\ d_cache[u] # 0
      /\ Insert(d_cache[u], 1, 1)
      /\ UNCHANGED <<d_objs, d_cache, plVars, dlVars, upVars>>

PauseItemOf(u) ==
    /\ DIdle
    /\ d_cache[u] # 0
    /\ d_extra < d_lim.extras
    /\ d_extra' = d_extra + 1
    /\ TopEmit([d_objs EXCEPT ![d_cache[u]] = PausedTransport(@)],
               d_cache[u], "pause", "command")
    /\ UNCHANGED <<plVars, dlVars, upVars>>

pauseItem == \E u \in Uuids : PauseItemOf(u)

Envs == {"present", "absent", "mkdirFails"}

\* _invoke(transport, done) on Transport o: the listeners are added, then
\* resume() if it is paused, start() otherwise. env is what start() finds: the
\* local file present, absent, or absent with mkdirp throwing.
\*   freed   done() callbacks called before _invoke returns
\*   thrown  an exception left _invoke
\*   cost    1 if env is not the plain case of an absent file
Invoke(objs, o, env) ==
    LET ob1 == [objs[o] EXCEPT !.live = @ + 1, !.act = @ + 1]
        run == [ob1 EXCEPT !.state = Running]
        err == [ob1 EXCEPT !.state = Error]
    IN  IF isPaused(ob1)
        THEN \* transport.resume(): a fresh stream and GET, the state untouched
             [objs |-> [objs EXCEPT ![o] = [ob1 EXCEPT !.stream = "open", !.gets = @ + 1]],
              freed |-> 0, thrown |-> FALSE, cost |-> 0]
        ELSE \* transport.start()
             CASE env = "present" ->
                    [objs |-> [objs EXCEPT ![o] = [run EXCEPT !.metas = @ + 1]],
                     freed |-> 0, thrown |-> FALSE, cost |-> 1]
               [] env = "absent" ->
                    [objs |-> [objs EXCEPT ![o] =
                                  [run EXCEPT !.stream = "open", !.gets = @ + 1]],
                     freed |-> 0, thrown |-> FALSE, cost |-> 0]
               [] env = "mkdirFails" ->
                    \* _checkError inside the worker: the error event is emitted
                    \* before _invoke returns; q.process called by its done()
                    \* returns at once, the loop of q.process being active
                    [objs |-> [objs EXCEPT ![o] = AfterEmit(err)],
                     freed |-> Dones(err), thrown |-> Throws(err), cost |-> 1]

\* ---- q.remove(testFn) of pauseAll, walking the list of pending entries q.
\* The walk keeps curr and next = curr.next, calls testFn(curr), which pauses
\* the Transport, and unlinks curr. A done() called by the pause event frees a
\* slot and calls q.process from inside the walk, which shifts entries from the
\* head of the list and starts them. The state of the walk:
\*   objs, running, stuck   the Transports, numRunning, isProcessing left set
\*   j        the entries q[j], q[j+1], ... are still linked
\*   head     the list's head is q[j] (or null after q[Len(q)]); FALSE: the head
\*            was set to null by unlinking an entry that was shifted before
\*   len      q._tasks.length
\*   thrown   an exception ended the walk
\*   cost     what the walk adds to d_extra
RECURSIVE ProcessLoop(_, _, _)
\* q.process: while (numRunning < concurrency && q._tasks.length) shift and start.
\* With a length that is not 0 and no head, shift() returns nothing: the worker
\* is called without a Transport (negative length) or node.data fails, and the
\* exception leaves isProcessing set.
ProcessLoop(st, q, envs) ==
    IF st.stuck \/ st.thrown \/ ~CanStart(st.running) \/ st.len = 0 THEN st
    ELSE IF ~st.head \/ st.j > Len(q)
    THEN [st EXCEPT !.thrown = TRUE, !.stuck = TRUE,
                    !.running = IF st.len < 0 THEN @ + 1 ELSE @]
    ELSE LET r == Invoke(st.objs, q[st.j], envs[st.j])
         IN  ProcessLoop([st EXCEPT !.objs = r.objs,
                                    !.j = @ + 1,
                                    !.len = @ - 1,
                                    !.running = @ + 1 - r.freed,
                                    !.cost = @ + r.cost,
                                    !.thrown = r.thrown,
                                    !.stuck = r.thrown],
                         q, envs)

RECURSIVE DonesIn(_, _, _, _, _)
\* the n done() callbacks the pause event of Transport o calls, one listener
\* after the other: numRunning - 1 and q.process each; an exception leaves the
\* remaining ones uncalled
DonesIn(n, o, st, q, envs) ==
    IF n = 0 THEN st
    ELSE IF st.thrown THEN [st EXCEPT !.objs[o].live = @ + n]
    ELSE DonesIn(n - 1, o, ProcessLoop([st EXCEPT !.running = @ - 1], q, envs), q, envs)

RECURSIVE Walk(_, _, _, _)
Walk(i, st, q, envs) ==
    LET o       == q[i]
        hasNext == i >= st.j /\ i < Len(q)     \* curr.next, read before testFn
        ob1     == PausedTransport(st.objs[o])
        st1     == [st EXCEPT !.objs[o] = AfterEmit(ob1)]
    IN  IF Throws(ob1) THEN [st1 EXCEPT !.thrown = TRUE]
        ELSE LET st2 == DonesIn(Dones(ob1), o, st1, q, envs)
                 \* removeLink(curr): of a linked entry, the head moves on; of an
                 \* entry shifted meanwhile, head and tail become null
                 st3 == IF i >= st2.j
                        THEN [st2 EXCEPT !.j = i + 1, !.head = TRUE, !.len = @ - 1]
                        ELSE [st2 EXCEPT !.head = FALSE, !.len = @ - 1]
             IN  IF st2.thrown THEN st2
                 ELSE IF hasNext THEN Walk(i + 1, st3, q, envs)
                 ELSE st3

RemoveAll(objs, q, length, running, stuck, envs) ==
    LET st0 == [objs |-> objs, j |-> 1, head |-> TRUE, len |-> length,
                running |-> running, stuck |-> stuck, thrown |-> FALSE, cost |-> 1]
    IN  IF q = <<>> THEN st0 ELSE Walk(1, st0, q, envs)

\* a pause event inside the walk calls a done() that has not been called
Reentrant(objs, q) ==
    \E i \in 1..Len(q) : objs[q[i]].live > 0 /\ ~objs[q[i]].fired

\* what the start() calls inside the walk find, by entry
WalkEnvs(objs, q) ==
    IF Reentrant(objs, q) THEN [1..Len(q) -> Envs]
    ELSE {[i \in 1..Len(q) |-> "absent"]}

pauseAll ==
    \E envs \in WalkEnvs(d_objs, d_queue) :
      LET r == RemoveAll(d_objs, d_queue, d_length, d_running, d_stuck, envs) IN
      /\ DIdle
      /\ d_extra + r.cost <= d_lim.extras
      /\ d_extra' = d_extra + r.cost
      /\ d_objs' = r.objs
      /\ d_queue' = IF r.head THEN SubSeq(d_queue, r.j, Len(d_queue)) ELSE <<>>
      /\ d_length' = r.len
      /\ d_running' = r.running
      /\ d_stuck' = r.stuck
      /\ d_crashed' = r.thrown
      /\ UNCHANGED <<d_cache, d_sched, d_agenda, d_ctx, d_lim,
                     plVars, dlVars, upVars>>

\* q.process: nothing to do when isProcessing is set, no slot is free or the
\* length of the list is 0; otherwise its loop runs
Loop(running, length) ==
    IF ~d_stuck /\ CanStart(running) /\ length # 0 THEN <<"loop">> ELSE <<>>

\* the setImmediate callback of the queue: q.process
Immediate ==
    /\ DIdle
    /\ d_sched
    /\ d_sched' = FALSE
    /\ d_agenda' = Loop(d_running, d_length)
    /\ d_ctx' = IF d_agenda' = <<>> THEN "none" ELSE "immediate"
    /\ UNCHANGED <<d_cache, d_objs, d_queue, d_length, d_running, d_stuck, d_crashed,
                   d_extra, d_lim, plVars, dlVars, upVars>>

\* done() of one admission: the slot is freed and q.process runs
AgendaDone ==
    /\ ~d_crashed
    /\ d_agenda # <<>> /\ Head(d_agenda) = "done"
    /\ d_running' = d_running - 1
    /\ d_agenda' = Loop(d_running - 1, d_length) \o Tail(d_agenda)
    /\ d_ctx' = IF d_agenda' = <<>> THEN "none" ELSE d_ctx
    /\ UNCHANGED <<d_cache, d_objs, d_queue, d_length, d_sched, d_stuck, d_crashed,
                   d_extra, d_lim, plVars, dlVars, upVars>>

\* one turn of the loop of q.process: the head entry is shifted and _invoke
\* runs; the loop goes on while a slot is free and the length is not 0
AgendaStart ==
    \E env \in Envs :
      LET st0 == [objs |-> d_objs, j |-> 1, head |-> TRUE, len |-> d_length,
                  running |-> d_running, stuck |-> FALSE, thrown |-> FALSE, cost |-> 0]
          \* one turn: ProcessLoop stops after it when given no further slot
          r == IF d_queue = <<>>
               THEN [st0 EXCEPT !.thrown = TRUE, !.stuck = TRUE,
                                !.running = IF d_length < 0 THEN @ + 1 ELSE @]
               ELSE LET v == Invoke(d_objs, Head(d_queue), env)
                    IN  [st0 EXCEPT !.objs = v.objs, !.j = 2, !.len = @ - 1,
                                    !.running = @ + 1 - v.freed, !.cost = v.cost,
                                    !.thrown = v.thrown, !.stuck = v.thrown]
      IN
      /\ ~d_crashed
      /\ d_agenda # <<>> /\ Head(d_agenda) = "loop"
      /\ d_queue # <<>> \/ env = "absent"
      /\ d_queue # <<>> /\ isPaused(d_objs[Head(d_queue)]) => env = "absent"
      /\ d_extra + r.cost <= d_lim.extras
      /\ d_extra' = d_extra + r.cost
      /\ d_objs' = r.objs
      /\ d_queue' = IF d_queue = <<>> THEN <<>> ELSE Tail(d_queue)
      /\ d_length' = r.len
      /\ d_running' = r.running
      /\ d_stuck' = r.stuck
      /\ IF r.thrown THEN Uncaught(d_ctx) ELSE d_crashed' = d_crashed
      /\ d_agenda' = IF r.thrown
                     THEN <<>>
                     ELSE Loop(r.running, r.len) \o Tail(d_agenda)
      /\ d_ctx' = IF d_agenda' = <<>> THEN "none" ELSE d_ctx
      /\ UNCHANGED <<d_cache, d_sched, d_lim, plVars, dlVars, upVars>>

\* what the metadata callback of start() may do, over local and remote sizes and times
StartActs ==
    { StartDecision(size, mtime, metaSize, metaModifiedTime).act :
        size \in 0..1, mtime \in 0..1, metaSize \in 0..1, metaModifiedTime \in 0..1 }

\* the metadata of Transport o arrives: the decision of start()
MetaOk ==
    \E o \in 1..Len(d_objs) :
      \E act \in StartActs :
        LET ob1 == [d_objs[o] EXCEPT !.metas = @ - 1] IN
        /\ DIdle
        /\ d_objs[o].metas > 0
        /\ IF act = "resume"
           THEN Quiet([d_objs EXCEPT ![o] =
                          [ob1 EXCEPT !.stream = "open", !.gets = @ + 1]])
           ELSE IF ob1.state = Running
           THEN TopEmit([d_objs EXCEPT ![o] = [ob1 EXCEPT !.state = Finished]],
                        o, "finish", "promise")
           ELSE Quiet([d_objs EXCEPT ![o] = ob1])
        /\ UNCHANGED <<d_extra, plVars, dlVars, upVars>>

\* a request of Transport o rejects: _checkError (a GET's failure counts in
\* d_extra; the metadata request's does not, the local file it is made for does)
Rejected(o, ob1, cost) ==
    /\ d_extra + cost <= d_lim.extras
    /\ d_extra' = d_extra + cost
    /\ IF ob1.state = Running
       THEN TopEmit([d_objs EXCEPT ![o] = [ob1 EXCEPT !.state = Error]],
                    o, "error", "promise")
       ELSE Quiet([d_objs EXCEPT ![o] = ob1])

MetaFail ==
    \E o \in 1..Len(d_objs) :
      /\ DIdle
      /\ d_objs[o].metas > 0
      /\ Rejected(o, [d_objs[o] EXCEPT !.metas = @ - 1], 0)
      /\ UNCHANGED <<plVars, dlVars, upVars>>

\* the GET of Transport o resolves: _checkFinish
GetOk ==
    \E o \in 1..Len(d_objs) :
      LET ob1 == [d_objs[o] EXCEPT !.gets = @ - 1] IN
      /\ DIdle
      /\ d_objs[o].gets > 0
      /\ IF ob1.state = Running
         THEN TopEmit([d_objs EXCEPT ![o] = [ob1 EXCEPT !.state = Finished]],
                      o, "finish", "promise")
         ELSE Quiet([d_objs EXCEPT ![o] = ob1])
      /\ UNCHANGED <<d_extra, plVars, dlVars, upVars>>

GetFail ==
    \E o \in 1..Len(d_objs) :
      /\ DIdle
      /\ d_objs[o].gets > 0
      /\ Rejected(o, [d_objs[o] EXCEPT !.gets = @ - 1], 1)
      /\ UNCHANGED <<plVars, dlVars, upVars>>

Next ==
    \/ addItem
    \/ addPatch
    \/ resumeItem
    \/ pauseItem
    \/ pauseAll
    \/ Immediate
    \/ AgendaDone
    \/ AgendaStart
    \/ MetaOk
    \/ MetaFail
    \/ GetOk
    \/ GetFail

vars == <<plVars, dlVars, dVars, upVars>>

SpecPlan == PlanInit /\ [][PlanNext]_vars
SpecDl   == DlInit /\ [][DlNext]_vars
SpecDlIo == DlInitIo /\ [][DlNextIo]_vars
Spec     == Init /\ [][Next]_vars
SpecFew  == InitFew /\ [][Next]_vars
SpecUp   == UpInit /\ [][UpNext]_vars

(***************************************************************************)
(* Properties of the planner (SpecPlan)                                    *)
(***************************************************************************)
RECURSIVE SumSizes(_)
SumSizes(parts) ==
    IF parts = <<>> THEN 0 ELSE parts[1].partSize + SumSizes(Tail(parts))

PlanDone == pl_pc = "done"
PlanCase == PlanDone /\ pl_in.totalSize > pl_in.uploadSize

\* C2: for totalSize > uploadSize >= 0 the returned sizes sum to
\* totalSize - uploadSize, the first part starts at uploadSize, every following
\* part starts where the previous one ends, and the last part ends at totalSize.
C2_SumAndContiguous ==
    PlanCase =>
        /\ Len(pl_out) >= 1
        /\ SumSizes(pl_out) = pl_in.totalSize - pl_in.uploadSize
        /\ pl_out[1].start = pl_in.uploadSize
        /\ \A i \in 1..(Len(pl_out) - 1) :
              pl_out[i + 1].start = pl_out[i].start + pl_out[i].partSize
        /\ pl_out[Len(pl_out)].start + pl_out[Len(pl_out)].partSize = pl_in.totalSize

C2_Witness ==
    /\ PlanCase
    /\ pl_in.uploadSize > 0
    /\ Len(pl_out) >= 3

\* C3 as stated: for every existingPartCount >= 0 and maxParts >= 1 with
\* totalSize > uploadedSize, existing parts plus returned parts never exceed maxParts.
C3_Original ==
    PlanCase => Len(pl_in.orderedParts) + Len(pl_out) <= pl_in.maxParts

\* C3 amended: the same, for existingPartCount < maxParts.
C3_CountWithinMaxParts ==
    (PlanCase /\ Len(pl_in.orderedParts) < pl_in.maxParts) =>
        Len(pl_in.orderedParts) + Len(pl_out) <= pl_in.maxParts

C3_Witness ==
    /\ PlanCase
    /\ Len(pl_in.orderedParts) >= 1
    /\ Len(pl_in.orderedParts) < pl_in.maxParts
    /\ Len(pl_out) >= 2
    /\ Len(pl_in.orderedParts) + Len(pl_out) = pl_in.maxParts
    /\ pl_out[1].partSize > kPartSize

MinOf(a, b) == IF a < b THEN a ELSE b

\* C4: every returned part except the last has
\* partSize >= min(20 MiB, totalSize - uploadedSize), and all parts except the
\* last have the same size.
C4_FloorAndEqualSizes ==
    PlanCase =>
        \A i \in 1..(Len(pl_out) - 1) :
            /\ pl_out[i].partSize >= MinOf(kPartSize, pl_in.totalSize - pl_in.uploadSize)
            /\ pl_out[i].partSize = pl_out[1].partSize

C4_Witness ==
    /\ PlanCase
    /\ Len(pl_out) >= 3
    /\ pl_out[Len(pl_out)].partSize < pl_out[1].partSize
    /\ pl_out[1].partSize = kPartSize

(***************************************************************************)
(* Properties of the download Transport (SpecDl)                           *)
(***************************************************************************)
\* the entry was decided for a local file that start() treats as stale
Stale(e) == e.size >= e.metaSize \/ e.mtime <= e.metaModifiedTime

Overwrite(e) ==
    e.act = "resume" /\ e.begin = 0 /\ ~e.range.ranged /\ e.flags = "w"

RangedAppend(e) ==
    /\ e.act = "resume"
    /\ e.range.ranged /\ e.range.from = e.size /\ e.begin = e.size
    /\ e.flags = "a"

C6_EqualSizeNewerFinishes ==
    \A i \in 1..Len(dl_log) :
        (/\ dl_log[i].size = dl_log[i].metaSize
         /\ dl_log[i].mtime > dl_log[i].metaModifiedTime)
           => (dl_log[i].act = "finish" /\ ~dl_log[i].opened)

\* C7: start() with a local file of 0 bytes, a remote object of 0 bytes and equal
\* modification times moves directly to Finished with no stream opened.
C7_EmptyEqualFinishes ==
    \A i \in 1..Len(dl_log) :
        (/\ dl_log[i].size = 0 /\ dl_log[i].metaSize = 0
         /\ dl_log[i].mtime = dl_log[i].metaModifiedTime)
           => (dl_log[i].act = "finish" /\ ~dl_log[i].opened)

\* the newest write stream is open, with its GET in flight, in a Running task
NewStreamTransferring ==
    /\ dl_state = Running
    /\ dl_stream = "open"
    /\ \E j \in 1..Len(dl_gets) : dl_gets[j].id = dl_opened

\* the GET of an earlier stream, which pause() has ended, settles in this step
LateSettle(i) ==
    /\ dl_gets[i].id < dl_opened
    /\ dl_gets[i].ended
    /\ dl_gets' = RemoveAt(dl_gets, i)
    /\ DlGetOk \/ DlGetFail

\* C20: when a task is paused and started again before the GET of the earlier
\* stream has settled, the late completion or failure of that GET does not
\* mark the task Finished or Error while the new stream is transferring.
C20_LateOutcomeIgnored ==
    [][ \A i \in 1..Len(dl_gets) :
          (NewStreamTransferring /\ LateSettle(i)) =>
              /\ dl_state' = dl_state
              /\ dl_emitted' = dl_emitted
      ]_vars

(***************************************************************************)
(* Properties of the download Transport with stream events (SpecDlIo)      *)
(***************************************************************************)
\* a request, the metadata fetch, mkdirp or the write stream fails
DlFailure == DlMetaFail \/ DlGetFail \/ DlStartMkdirFails \/ DlStreamError

\* C12: whenever a request, a metadata fetch, a filesystem operation or the
\* write stream of a Running task fails (mkdirp fails inside start(), which has
\* set the state to Running), the Transport moves to Error and emits exactly
\* one error event for that failure.
C12_NoErrorSwallowed ==
    [][ (DlFailure /\ (dl_state = Running \/ DlStartMkdirFails)) =>
            /\ dl_state' = Error
            /\ dl_emitted' = Append(dl_emitted, "error")
      ]_vars

\* the Transport is Running with its write stream open and a GET in flight
ActiveStream == dl_state = Running /\ dl_stream = "open" /\ dl_gets # <<>>

\* C17: the watchdog fires for every active stream of a Running task that
\* gets no progress event within the window, also when the stream stalls before
\* its first progress event: whenever a stream is active the timer of the
\* watchdog is running, so that it expires unless a progress event restarts it.
C17_WatchdogArmed == ActiveStream => dl_timer

(***************************************************************************)
(* Properties of the Dispatcher (Spec, SpecFew)                            *)
(***************************************************************************)
RECURSIVE SumAct(_)
SumAct(objs) == IF objs = <<>> THEN 0 ELSE Head(objs).act + SumAct(Tail(objs))

\* C1: the tasks the admission queue has started and that have not emitted
\* pause, finish or error since are at most K = 5, whatever commands and
\* transport events are interleaved.
C1_AtMostKStarted ==
    /\ SumAct(d_objs) <= Concurrency
    /\ Cardinality({o \in 1..Len(d_objs) : d_objs[o].act > 0}) <= Concurrency

\* a burst of more task ids than slots: K distinct tasks started, one waiting
C1_Witness ==
    /\ Cardinality(UsedUuids) > Concurrency
    /\ Cardinality({o \in 1..Len(d_objs) : d_objs[o].act > 0}) = Concurrency
    /\ d_queue # <<>>
    /\ d_agenda = <<>>
    /\ ~d_crashed

EmitsFinish(o) == d_objs[o].state = Running /\ d_objs'[o].state = Finished
EmitsError(o)  == d_objs[o].state = Running /\ d_objs'[o].state = Error

\* C9: a finish event removes the task's cache entry; an error or pause event
\* frees the admission slot of the Transport (no admission of it keeps a slot)
\* and leaves the cache entry as it was.
C9_FinishEvictsOthersRetain ==
    [][ /\ \A o \in 1..Len(d_objs) :
             /\ EmitsFinish(o) => d_cache'[d_objs[o].uuid] = 0
             /\ EmitsError(o) =>
                   /\ d_objs'[o].live = 0
                   /\ d_cache'[d_objs[o].uuid] = d_cache[d_objs[o].uuid]
        /\ \A u \in Uuids :
             PauseItemOf(u) =>
                   /\ d_objs'[d_cache[u]].live = 0
                   /\ d_cache'[u] = d_cache[u]
      ]_vars

Pending(o) == \E i \in 1..Len(d_queue) : d_queue[i] = o

\* C10: after pauseAll the queue holds no pending entry, every Transport that
\* was pending is Paused and still the cached Transport of its task id, and
\* the Transports that were not pending are as they were.
C10_PauseAllClearsPending ==
    [][ pauseAll =>
          /\ d_queue' = <<>>
          /\ \A o \in 1..Len(d_objs) :
               IF Pending(o)
               THEN /\ d_objs'[o].state = Paused
                    /\ d_cache'[d_objs[o].uuid] = o
               ELSE d_objs'[o] = d_objs[o]
      ]_vars

\* Transport o is a new task waiting for a slot: queued once by its first
\* addItem, never started, paused or queued again. The Transports are numbered
\* in the order of their first addItem.
NewWaiting(o) ==
    /\ d_objs[o].state = UnStarted
    /\ d_objs[o].live = 0 /\ ~d_objs[o].fired
    /\ Cardinality({i \in 1..Len(d_queue) : d_queue[i] = o}) = 1

\* C11: of two new tasks that both wait while no slot is free, the one whose
\* addItem came first is nearer the head of the queue, which is the entry
\* q.process starts next: A is started before B.
C11_NewTasksFifo ==
    \A i, j \in 1..Len(d_queue) :
        (/\ ~CanStart(d_running)
         /\ NewWaiting(d_queue[i]) /\ NewWaiting(d_queue[j])
         /\ d_queue[i] < d_queue[j])
           => i < j

\* every request of Transport o has settled
Settled(o) == d_objs[o].metas = 0 /\ d_objs[o].gets = 0

\* the Dispatcher has nothing left to run until the next command
Quiescent == d_agenda = <<>> /\ ~d_sched /\ ~d_crashed

\* Transport o was admitted, that admission has ended with an event, and it is
\* Paused now: the task was paused, and an admission of it calls resume()
PausedBefore(o) == d_objs[o].fired /\ d_objs[o].state = Paused

\* C13: a task that was paused and is admitted again emits finish or error and
\* frees its slot once the storage client has settled its requests: when every
\* request of it has settled and the Dispatcher has nothing left to run, it does
\* not hold a slot in state Paused.
C13_ResumedTaskFreesSlot ==
    \A o \in 1..Len(d_objs) :
        (Quiescent /\ Settled(o) /\ PausedBefore(o)) => d_objs[o].live = 0

\* C14: after addPatch with n object keys for a task id that has no Transport,
\* a transfer is admitted for each key: for every item of the list the queue
\* holds a Transport made for that item's objectKey and localPath.
C14_PatchAdmitsEveryKey ==
    [][ \A u \in Uuids : \A n \in 2..MaxPatch :
          (AddItems(u, n) /\ d_cache[u] = 0) =>
              \A k \in 1..n :
                  \E i \in 1..Len(d_queue') :
                      /\ d_objs'[d_queue'[i]].uuid = u
                      /\ d_objs'[d_queue'[i]].key = k
      ]_vars

\* start() or resume() of Transport o issues a request in this step
Started(o) ==
    d_objs'[o].gets + d_objs'[o].metas > d_objs[o].gets + d_objs[o].metas

\* a request of an earlier start of Transport o is active: its metadata fetch,
\* or the GET of the write stream it has open
StreamActive(o) ==
    d_objs[o].metas > 0 \/ (d_objs[o].stream = "open" /\ d_objs[o].gets > 0)

\* C18: whatever addItem, resumeItem and pauseItem commands are issued for a
\* task id, the queue does not start a Transport while a stream or request of
\* an earlier start of it is still active.
C18_OneActiveStream ==
    [][ AgendaStart =>
          \A o \in 1..Len(d_objs) : Started(o) => ~StreamActive(o)
      ]_vars

\* Transport o emits pause (by pauseItem), finish or error in this step
EventOf(o) ==
    \/ EmitsFinish(o)
    \/ EmitsError(o)
    \/ PauseItemOf(d_objs[o].uuid) /\ d_cache[d_objs[o].uuid] = o

\* C19: after any number of admit / pause / re-admit cycles, a pause, finish or
\* error event of a Transport that holds one admission sends exactly one
\* notification, frees exactly one slot, and calls no completion callback of an
\* earlier admission.
C19_ListenersTornDown ==
    [][ \A o \in 1..Len(d_objs) :
          (EventOf(o) /\ d_objs[o].live = 1) =>
              /\ ~Throws(d_objs[o])
              /\ Notified(d_objs[o]) = 1
              /\ Dones(d_objs[o]) = 1
      ]_vars

(***************************************************************************)
(* Properties of the upload Transport (SpecUp)                             *)
(***************************************************************************)
FetchSettles(r) ==
    /\ up_runs[r].pc = "fetch"
    /\ up_runs'[r].pc \in {"put", "complete"}

\* C8: once the Transport holds an uploadId it keeps it over start / pause /
\* start, the service creates at most one multipart upload for the Transport,
\* uploadedSize after a start is the sum of the sizes of the parts the service
\* has accepted for the Transport's upload, and no PUT is issued for a part the
\* service has accepted already.
C8_UploadIdKeptNoPartTwice ==
    [][ /\ up_uploadId # 0 => up_uploadId' = up_uploadId
        /\ Len(up_sessions') <= 1
        /\ \A r \in 1..Len(up_runs) :
             FetchSettles(r) =>
               up_uploadedSize' = SumParts(SortParts(up_sessions'[up_uploadId'].parts))
        /\ \A r \in 1..Len(up_runs') : ~up_runs'[r].dup
      ]_vars

\* run r has a PUT in flight whose read stream has not been ended
PutInFlight(r) == up_runs[r].pc = "put" /\ ~up_runs[r].ended

\* C15: at most one part PUT of the task is in flight at any time, and a part
\* is issued only when every part with a smaller partNumber has been accepted
\* by the service for the upload the PUT is addressed to.
C15_OnePutAscending ==
    /\ Cardinality({r \in 1..Len(up_runs) : PutInFlight(r)}) <= 1
    /\ \A r \in 1..Len(up_runs) :
         PutInFlight(r) =>
             \A n \in 1..(Head(up_runs[r].todo).partNumber - 1) :
                 n \in PartNumbers(up_sessions[up_runs[r].id])

\* the PUT of run r, whose read stream has not been ended, fails in this step
PutFails(r) == PutInFlight(r) /\ up_runs'[r].pc = "done"

\* C16: when the PUT of a part fails in a Running task, the task is in state
\* Error, no PUT and no completion call of the task is in flight or issued, and
\* uploadedSize is the sum of the sizes of the parts the service has accepted.
C16_PutFailureAborts ==
    [][ \A r \in 1..Len(up_runs) :
          (PutFails(r) /\ up_state = Running) =>
              /\ up_state' = Error
              /\ \A q \in 1..Len(up_runs') :
                    ~PutInFlight(q)' /\ up_runs'[q].pc # "complete"
              /\ up_uploadedSize' =
                    SumParts(SortParts(up_sessions'[up_runs[r].id].parts))
      ]_vars

====
